---- MODULE Spec2Model ----
(***************************************************************************)
(* Model of the oraiswap_staking contract entry points                     *)
(* (contracts/oraiswap_staking/src/contract.rs).  The handlers of          *)
(* contract.rs are translated from the source.  The engines they call that *)
(* live in other modules of the crate (staking.rs, rewards.rs,             *)
(* migration.rs, state.rs) are modelled from the written specification.    *)
(*                                                                         *)
(* A handler is an operator that returns the error it ends with (NoErr on  *)
(* success) and the storage it leaves; an error return reverts every write *)
(* of the call, as the host does for a failed transition.                  *)
(***************************************************************************)
EXTENDS Integers, Sequences, FiniteSets, TLC

VARIABLES config, pools, rewards, now, deposited, withdrawn, registered_ok, deprecated_ok, nops

vars == <<config, pools, rewards, now, deposited, withdrawn, registered_ok, deprecated_ok, nops>>

\* config, pools, rewards: the contract's storage; now: the block time.
\* History kept for the properties: deposited, withdrawn (reward ever
\* deposited for / paid out of each asset), registered_ok, deprecated_ok (the
\* assets for which a registration / a deprecation has succeeded), nops (the
\* number of steps taken).

(* ---------------------------- bounds ----------------------------------- *)
\* scale of the fixed-point Decimal in the model (10^18 in the library)
DecimalScale == 100
\* largest bonded amount of one position
MaxBond == 2
\* largest short amount of one position
MaxShort == 1
\* number of calls that change the storage (or block-time steps) explored
MaxOps == 5
\* largest block time explored
MaxTime == 1
MaxPremTime == 4
MaxTwoOps == 4

(* ---------------------------- addresses -------------------------------- *)
\* the address book of the model: position = canonical form
Addrs == <<"owner", "owner2", "oraix", "mint", "lp1", "lp2", "asset1", "asset2", "alice", "bob",
          "oracle", "factory">>

\* a human address the api rejects
BadAddr == "x"

\* deps.api.canonical_address: fails on a malformed address
canonical_address(h) ==
    IF \E i \in 1..Len(Addrs) : Addrs[i] = h
    THEN [ok |-> TRUE, v |-> CHOOSE i \in 1..Len(Addrs) : Addrs[i] = h]
    ELSE [ok |-> FALSE, v |-> 0]

\* deps.api.human_address
human_address(c) == Addrs[c]

Canon(h) == canonical_address(h).v

(* ---------------------------- Decimal ---------------------------------- *)
\* a Decimal is its scaled integer
Decimal_zero == 0
Decimal_percent(p) == (p * DecimalScale) \div 100
Decimal_from_ratio(n, d) == (n * DecimalScale) \div d
\* Uint128 * Decimal, truncating
MulDec(u, d) == (u * d) \div DecimalScale

(* ---------------------------- errors ----------------------------------- *)
NoErr == "ok"
ErrUnauthorized == "unauthorized"
ErrInvalidAddr == "invalid address"
ErrNotFound == "pool not found"
ErrAlreadyRegistered == "Asset was already registered"
ErrAlreadyMigrated == "This asset LP token has already been migrated"
ErrMismatch == "rewards amount miss matched"
ErrMigratedTo(h) == "The staking token for this asset has been migrated to " \o h
ErrZeroAmount == "amount must be positive"
ErrInsufficient == "Cannot unbond more than bond amount"
ErrUnderflow == "Cannot Sub"
ErrNoPosition == "reward info not found"

\* Option<T> as a sequence of length 0 or 1
None == <<>>
Some(x) == <<x>>

\* the result of a handler: an error reverts the storage
Fail(e) == [err |-> e, config |-> config, pools |-> pools, rewards |-> rewards]
Done(c, p, r) == [err |-> NoErr, config |-> c, pools |-> p, rewards |-> r]

\* store_pool_info / a map insert
Put(f, k, v) == [x \in DOMAIN f \cup {k} |-> IF x = k THEN v ELSE f[x]]

(* ---------------------------- init ------------------------------------- *)
\* InitMsg of the deployment explored
InitOwner == "owner"
InitInterval == 1

init(msg_owner, msg_interval, msg_short_reward_bound) ==
    [owner |-> Canon(msg_owner),
     oraix_token |-> Canon("oraix"),
     mint_contract |-> Canon("mint"),
     oracle_contract |-> Canon("oracle"),
     oraiswap_factory |-> Canon("factory"),
     base_denom |-> "orai",
     premium_min_update_interval |-> msg_interval,
     short_reward_bound |->
        IF msg_short_reward_bound = None
        THEN <<Decimal_percent(7), Decimal_percent(40)>>
        ELSE msg_short_reward_bound[1]]

EmptyMap == [x \in {} |-> 0]

Init ==
    /\ config = init(InitOwner, InitInterval, None)
    /\ pools = EmptyMap
    /\ rewards = EmptyMap
    /\ now = 0
    /\ deposited = [a \in {} |-> 0]
    /\ withdrawn = [a \in {} |-> 0]
    /\ registered_ok = {}
    /\ deprecated_ok = {}
    /\ nops = 0

(* ---------------------------- update_config ---------------------------- *)
\* mutation: a supplied owner is checked but not stored
update_config_KeepOwner(sender, owner, premium_min_update_interval, short_reward_bound) ==
    IF ~canonical_address(sender).ok THEN Fail(ErrInvalidAddr)
    ELSE IF Canon(sender) # config.owner THEN Fail(ErrUnauthorized)
    ELSE IF owner # None /\ ~canonical_address(owner[1]).ok THEN Fail(ErrInvalidAddr)
    ELSE
      LET c2 == IF premium_min_update_interval # None
                THEN [config EXCEPT
                         !.premium_min_update_interval = premium_min_update_interval[1]]
                ELSE config
          c3 == IF short_reward_bound # None
                THEN [c2 EXCEPT !.short_reward_bound = short_reward_bound[1]]
                ELSE c2
      IN Done(c3, pools, rewards)

\* mutation: an omitted short_reward_bound falls back to the bound of init
update_config_ResetOmitted(sender, owner, premium_min_update_interval, short_reward_bound) ==
    IF ~canonical_address(sender).ok THEN Fail(ErrInvalidAddr)
    ELSE IF Canon(sender) # config.owner THEN Fail(ErrUnauthorized)
    ELSE IF owner # None /\ ~canonical_address(owner[1]).ok THEN Fail(ErrInvalidAddr)
    ELSE
      LET c1 == IF owner # None THEN [config EXCEPT !.owner = Canon(owner[1])] ELSE config
          c2 == IF premium_min_update_interval # None
                THEN [c1 EXCEPT !.premium_min_update_interval = premium_min_update_interval[1]]
                ELSE c1
          c3 == IF short_reward_bound # None
                THEN [c2 EXCEPT !.short_reward_bound = short_reward_bound[1]]
                ELSE [c2 EXCEPT !.short_reward_bound =
                                    <<Decimal_percent(7), Decimal_percent(40)>>]
      IN Done(c3, pools, rewards)

update_config(sender, owner, premium_min_update_interval, short_reward_bound) ==
    IF ~canonical_address(sender).ok THEN Fail(ErrInvalidAddr)
    ELSE IF Canon(sender) # config.owner THEN Fail(ErrUnauthorized)
    ELSE IF owner # None /\ ~canonical_address(owner[1]).ok THEN Fail(ErrInvalidAddr)
    ELSE
      LET c1 == IF owner # None THEN [config EXCEPT !.owner = Canon(owner[1])] ELSE config
          c2 == IF premium_min_update_interval # None
                THEN [c1 EXCEPT !.premium_min_update_interval = premium_min_update_interval[1]]
                ELSE c1
          c3 == IF short_reward_bound # None
                THEN [c2 EXCEPT !.short_reward_bound = short_reward_bound[1]]
                ELSE c2
      IN Done(c3, pools, rewards)

(* ---------------------------- register_asset --------------------------- *)
NewPoolInfo(staking_token_raw) ==
    [staking_token |-> staking_token_raw,
     total_bond_amount |-> 0,
     total_short_amount |-> 0,
     reward_index |-> Decimal_zero,
     short_reward_index |-> Decimal_zero,
     pending_reward |-> 0,
     short_pending_reward |-> 0,
     premium_rate |-> Decimal_zero,
     short_reward_weight |-> Decimal_zero,
     premium_updated_time |-> 0,
     migration_params |-> None]

\* mutation: the owner check of register_asset compares nothing
IsOwner_RegisterOpen(sender_raw) == TRUE

\* config.owner == canonical_address(info.sender) in register_asset
IsOwner_Register(sender_raw) == config.owner = sender_raw

\* mutation: an existing pool is not detected
AlreadyRegistered_Never(p, asset_token_raw) == FALSE

\* read_pool_info(..).is_ok()
AlreadyRegistered(p, asset_token_raw) == asset_token_raw \in DOMAIN p

\* register_asset over the pool map p
register_on(p, sender, asset_token, staking_token) ==
    IF ~canonical_address(asset_token).ok THEN Fail(ErrInvalidAddr)
    ELSE IF ~canonical_address(sender).ok THEN Fail(ErrInvalidAddr)
    ELSE IF ~IsOwner_Register(Canon(sender)) THEN Fail(ErrUnauthorized)
    ELSE IF AlreadyRegistered(p, Canon(asset_token)) THEN Fail(ErrAlreadyRegistered)
    ELSE IF ~canonical_address(staking_token).ok THEN Fail(ErrInvalidAddr)
    ELSE Done(config, Put(p, Canon(asset_token), NewPoolInfo(Canon(staking_token))), rewards)

register_asset(sender, asset_token, staking_token) ==
    register_on(pools, sender, asset_token, staking_token)

(* ---------------------------- deprecate_staking_token ------------------ *)
\* mutation: a recorded migration does not stop a new one
HasMigrated_Never(pool_info) == FALSE

\* pool_info.migration_params.is_some()
HasMigrated(pool_info) == pool_info.migration_params # None

\* mutation: the old token is read after the new one has been stored
Deprecated_SwapFirst(pool_info, new_staking_token_raw) ==
    [pool_info EXCEPT
       !.total_bond_amount = 0,
       !.migration_params =
          Some([index_snapshot |-> pool_info.reward_index,
                deprecated_staking_token |-> new_staking_token_raw]),
       !.staking_token = new_staking_token_raw]

\* mutation: the reward index restarts with the new token
Deprecated_ResetIndex(pool_info, new_staking_token_raw) ==
    [pool_info EXCEPT
       !.total_bond_amount = 0,
       !.reward_index = Decimal_zero,
       !.migration_params =
          Some([index_snapshot |-> pool_info.reward_index,
                deprecated_staking_token |-> pool_info.staking_token]),
       !.staking_token = new_staking_token_raw]

\* mutation: the bonded total is carried over to the new token
Deprecated_KeepTotal(pool_info, new_staking_token_raw) ==
    [pool_info EXCEPT
       !.migration_params =
          Some([index_snapshot |-> pool_info.reward_index,
                deprecated_staking_token |-> pool_info.staking_token]),
       !.staking_token = new_staking_token_raw]

\* mutation: the undistributed remainder is dropped with the old token
Deprecated_ClearPending(pool_info, new_staking_token_raw) ==
    [pool_info EXCEPT
       !.total_bond_amount = 0,
       !.pending_reward = 0,
       !.migration_params =
          Some([index_snapshot |-> pool_info.reward_index,
                deprecated_staking_token |-> pool_info.staking_token]),
       !.staking_token = new_staking_token_raw]

\* the pool record deprecate_staking_token stores
Deprecated(pool_info, new_staking_token_raw) ==
    [pool_info EXCEPT
       !.total_bond_amount = 0,
       !.migration_params =
          Some([index_snapshot |-> pool_info.reward_index,
                deprecated_staking_token |-> pool_info.staking_token]),
       !.staking_token = new_staking_token_raw]

\* mutation: the record is stored before the single-shot check, and the
\* error returned afterwards does not undo the store
deprecate_on_StoreFirst(p, sender, asset_token, new_staking_token) ==
    IF ~canonical_address(asset_token).ok THEN Fail(ErrInvalidAddr)
    ELSE IF ~canonical_address(sender).ok THEN Fail(ErrInvalidAddr)
    ELSE IF config.owner # Canon(sender) THEN Fail(ErrUnauthorized)
    ELSE IF Canon(asset_token) \notin DOMAIN p THEN Fail(ErrNotFound)
    ELSE IF ~canonical_address(new_staking_token).ok THEN Fail(ErrInvalidAddr)
    ELSE
      LET pool_info == p[Canon(asset_token)]
          written == Put(p, Canon(asset_token),
                         Deprecated(pool_info, Canon(new_staking_token)))
      IN IF HasMigrated(pool_info)
         THEN [err |-> ErrAlreadyMigrated, config |-> config, pools |-> written,
               rewards |-> rewards]
         ELSE Done(config, written, rewards)

\* mutation: the deprecation is keyed by the staking token, and reaches every
\* pool that shares it
deprecate_on_ByToken(p, sender, asset_token, new_staking_token) ==
    IF ~canonical_address(asset_token).ok THEN Fail(ErrInvalidAddr)
    ELSE IF ~canonical_address(sender).ok THEN Fail(ErrInvalidAddr)
    ELSE IF config.owner # Canon(sender) THEN Fail(ErrUnauthorized)
    ELSE IF Canon(asset_token) \notin DOMAIN p THEN Fail(ErrNotFound)
    ELSE
      LET pool_info == p[Canon(asset_token)] IN
      IF HasMigrated(pool_info) THEN Fail(ErrAlreadyMigrated)
      ELSE IF ~canonical_address(new_staking_token).ok THEN Fail(ErrInvalidAddr)
      ELSE Done(config,
                [x \in DOMAIN p |->
                    IF p[x].staking_token = pool_info.staking_token /\ ~HasMigrated(p[x])
                    THEN Deprecated(p[x], Canon(new_staking_token)) ELSE p[x]],
                rewards)

\* the body of deprecate_staking_token, run as sender over the pool map p
deprecate_on(p, sender, asset_token, new_staking_token) ==
    IF ~canonical_address(asset_token).ok THEN Fail(ErrInvalidAddr)
    ELSE IF ~canonical_address(sender).ok THEN Fail(ErrInvalidAddr)
    ELSE IF config.owner # Canon(sender) THEN Fail(ErrUnauthorized)
    ELSE IF Canon(asset_token) \notin DOMAIN p THEN Fail(ErrNotFound)
    ELSE
      LET pool_info == p[Canon(asset_token)] IN
      IF HasMigrated(pool_info) THEN Fail(ErrAlreadyMigrated)
      ELSE IF ~canonical_address(new_staking_token).ok THEN Fail(ErrInvalidAddr)
      ELSE Done(config,
                Put(p, Canon(asset_token), Deprecated(pool_info, Canon(new_staking_token))),
                rewards)

deprecate_staking_token(sender, asset_token, new_staking_token) ==
    deprecate_on(pools, sender, asset_token, new_staking_token)

(* ---------------------------- positions (staking.rs) ------------------- *)
NewRewardInfo(pool_info) ==
    [index |-> pool_info.reward_index,
     short_index |-> pool_info.short_reward_index,
     bond_amount |-> 0,
     short_amount |-> 0,
     pending_reward |-> 0]

\* the reward checkpoint taken before a stake-size change
before_share_change(pool_info, ri) ==
    [ri EXCEPT
       !.pending_reward = ri.pending_reward
            + MulDec(ri.bond_amount, pool_info.reward_index - ri.index)
            + MulDec(ri.short_amount, pool_info.short_reward_index - ri.short_index),
       !.index = pool_info.reward_index,
       !.short_index = pool_info.short_reward_index]

IsEmptyPosition(ri) == ri.bond_amount = 0 /\ ri.short_amount = 0 /\ ri.pending_reward = 0

\* a position is kept while it holds anything
StorePosition(r, k, ri) ==
    IF IsEmptyPosition(ri) THEN [x \in DOMAIN r \ {k} |-> r[x]] ELSE Put(r, k, ri)

ReadPosition(r, k, pool_info) == IF k \in DOMAIN r THEN r[k] ELSE NewRewardInfo(pool_info)

\* bond over the pool map p and the position map rw
bond_on(p, rw, staker_addr, asset_token, amount) ==
    IF ~canonical_address(staker_addr).ok \/ ~canonical_address(asset_token).ok
    THEN Fail(ErrInvalidAddr)
    ELSE IF Canon(asset_token) \notin DOMAIN p THEN Fail(ErrNotFound)
    ELSE IF amount = 0 THEN Fail(ErrZeroAmount)
    ELSE
      LET a == Canon(asset_token)
          k == <<Canon(staker_addr), a>>
          pool_info == p[a]
          ri == before_share_change(pool_info, ReadPosition(rw, k, pool_info))
      IN Done(config,
              Put(p, a, [pool_info EXCEPT !.total_bond_amount = @ + amount]),
              StorePosition(rw, k, [ri EXCEPT !.bond_amount = @ + amount]))

bond(staker_addr, asset_token, amount) == bond_on(pools, rewards, staker_addr, asset_token, amount)

\* unbond over the pool map p and the position map rw
unbond_on(p, rw, sender, asset_token, amount) ==
    IF ~canonical_address(sender).ok \/ ~canonical_address(asset_token).ok
    THEN Fail(ErrInvalidAddr)
    ELSE IF Canon(asset_token) \notin DOMAIN p THEN Fail(ErrNotFound)
    ELSE
      LET a == Canon(asset_token)
          k == <<Canon(sender), a>>
          pool_info == p[a]
      IN IF k \notin DOMAIN rw THEN Fail(ErrNoPosition)
         ELSE IF rw[k].bond_amount < amount THEN Fail(ErrInsufficient)
         ELSE IF pool_info.total_bond_amount < amount THEN Fail(ErrUnderflow)
         ELSE
           LET ri == before_share_change(pool_info, rw[k])
           IN Done(config,
                   Put(p, a, [pool_info EXCEPT !.total_bond_amount = @ - amount]),
                   StorePosition(rw, k, [ri EXCEPT !.bond_amount = @ - amount]))

unbond(sender, asset_token, amount) == unbond_on(pools, rewards, sender, asset_token, amount)

increase_short_token(sender, staker_addr, asset_token, amount) ==
    IF ~canonical_address(sender).ok \/ ~canonical_address(staker_addr).ok
       \/ ~canonical_address(asset_token).ok
    THEN Fail(ErrInvalidAddr)
    ELSE IF Canon(sender) # config.mint_contract THEN Fail(ErrUnauthorized)
    ELSE IF Canon(asset_token) \notin DOMAIN pools THEN Fail(ErrNotFound)
    ELSE
      LET a == Canon(asset_token)
          k == <<Canon(staker_addr), a>>
          pool_info == pools[a]
          ri == before_share_change(pool_info, ReadPosition(rewards, k, pool_info))
      IN Done(config,
              Put(pools, a, [pool_info EXCEPT !.total_short_amount = @ + amount]),
              StorePosition(rewards, k, [ri EXCEPT !.short_amount = @ + amount]))

decrease_short_token(sender, staker_addr, asset_token, amount) ==
    IF ~canonical_address(sender).ok \/ ~canonical_address(staker_addr).ok
       \/ ~canonical_address(asset_token).ok
    THEN Fail(ErrInvalidAddr)
    ELSE IF Canon(sender) # config.mint_contract THEN Fail(ErrUnauthorized)
    ELSE IF Canon(asset_token) \notin DOMAIN pools THEN Fail(ErrNotFound)
    ELSE
      LET a == Canon(asset_token)
          k == <<Canon(staker_addr), a>>
          pool_info == pools[a]
      IN IF k \notin DOMAIN rewards THEN Fail(ErrNoPosition)
         ELSE IF rewards[k].short_amount < amount THEN Fail(ErrInsufficient)
         ELSE
           LET ri == before_share_change(pool_info, rewards[k])
           IN Done(config,
                   Put(pools, a, [pool_info EXCEPT !.total_short_amount = @ - amount]),
                   StorePosition(rewards, k, [ri EXCEPT !.short_amount = @ - amount]))

(* ---------------------------- rewards (rewards.rs) --------------------- *)
\* one side of a pool takes its portion: <<index, pending>> afterwards
FoldReward_SkipZero(index, pending, total, portion) ==
    IF total = 0 \/ portion = 0 THEN <<index, pending + portion>>
    ELSE LET p == pending + portion
             index_delta == Decimal_from_ratio(p, total)
         IN <<index + index_delta, p - MulDec(total, index_delta)>>

FoldReward(index, pending, total, portion) ==
    IF total = 0 THEN <<index, pending + portion>>
    ELSE LET p == pending + portion
             index_delta == Decimal_from_ratio(p, total)
         IN <<index + index_delta, p - MulDec(total, index_delta)>>

deposit_one(pool_info, amount) ==
    LET short_reward == MulDec(amount, pool_info.short_reward_weight)
        normal_reward == amount - short_reward
        n == FoldReward(pool_info.reward_index, pool_info.pending_reward,
                        pool_info.total_bond_amount, normal_reward)
        s == FoldReward(pool_info.short_reward_index, pool_info.short_pending_reward,
                        pool_info.total_short_amount, short_reward)
    IN [pool_info EXCEPT !.reward_index = n[1], !.pending_reward = n[2],
                         !.short_reward_index = s[1], !.short_pending_reward = s[2]]

\* the pools after the entries i.. of the reward list; "error" when one names no pool
RECURSIVE deposit_from(_, _, _)
deposit_from(p, rs, i) ==
    IF i > Len(rs) THEN [ok |-> TRUE, pools |-> p]
    ELSE IF ~canonical_address(rs[i][1]).ok \/ Canon(rs[i][1]) \notin DOMAIN p
         THEN [ok |-> FALSE, pools |-> p]
         ELSE deposit_from(Put(p, Canon(rs[i][1]), deposit_one(p[Canon(rs[i][1])], rs[i][2])),
                           rs, i + 1)

deposit_reward(rs, rewards_amount) ==
    LET r == deposit_from(pools, rs, 1)
    IN IF r.ok THEN Done(config, r.pools, rewards) ELSE Fail(ErrNotFound)

\* the reward paid by withdraw_reward to sender for the asset
WithdrawAmount(sender, asset_token) ==
    LET k == <<Canon(sender), Canon(asset_token)>>
    IN IF canonical_address(sender).ok /\ canonical_address(asset_token).ok
          /\ Canon(asset_token) \in DOMAIN pools /\ k \in DOMAIN rewards
       THEN before_share_change(pools[Canon(asset_token)], rewards[k]).pending_reward
       ELSE 0

withdraw_reward(sender, asset_token) ==
    IF ~canonical_address(sender).ok \/ ~canonical_address(asset_token).ok
    THEN Fail(ErrInvalidAddr)
    ELSE IF Canon(asset_token) \notin DOMAIN pools THEN Fail(ErrNotFound)
    ELSE
      LET k == <<Canon(sender), Canon(asset_token)>>
      IN IF k \notin DOMAIN rewards THEN Done(config, pools, rewards)
         ELSE LET ri == before_share_change(pools[Canon(asset_token)], rewards[k])
              IN Done(config, pools, StorePosition(rewards, k, [ri EXCEPT !.pending_reward = 0]))

\* one asset of adjust_premium at block time t, the oracle reporting premium
adjust_one_NoLimit(pool_info, t, premium) ==
    [pool_info EXCEPT
       !.premium_rate = premium,
       !.short_reward_weight =
           IF premium > config.short_reward_bound[1]
           THEN config.short_reward_bound[2] ELSE Decimal_zero,
       !.premium_updated_time = t]

adjust_one(pool_info, t, premium) ==
    IF t < pool_info.premium_updated_time + config.premium_min_update_interval
    THEN pool_info
    ELSE [pool_info EXCEPT
            !.premium_rate = premium,
            !.short_reward_weight =
                IF premium > config.short_reward_bound[1]
                THEN config.short_reward_bound[2] ELSE Decimal_zero,
            !.premium_updated_time = t]

RECURSIVE adjust_from(_, _, _, _)
adjust_from(p, as, i, t) ==
    IF i > Len(as) THEN [ok |-> TRUE, pools |-> p]
    ELSE IF ~canonical_address(as[i][1]).ok \/ Canon(as[i][1]) \notin DOMAIN p
         THEN [ok |-> FALSE, pools |-> p]
         ELSE adjust_from(Put(p, Canon(as[i][1]), adjust_one(p[Canon(as[i][1])], t, as[i][2])),
                          as, i + 1, t)

\* asset_tokens paired with the premium the oracle reports for each
adjust_premium(t, asset_tokens) ==
    LET r == adjust_from(pools, asset_tokens, 1, t)
    IN IF r.ok THEN Done(config, r.pools, rewards) ELSE Fail(ErrNotFound)

(* ---------------------------- receive_cw20 --------------------------- *)
ErrInvalidHook == "invalid cw20 hook message"

\* hook: [kind |-> "Bond", asset_token |-> h], [kind |-> "DepositReward", rewards |-> rs]
\* or [kind |-> "none"] for an absent or unparsable payload
RECURSIVE SumAmounts(_, _)
SumAmounts(rs, i) == IF i > Len(rs) THEN 0 ELSE rs[i][2] + SumAmounts(rs, i + 1)

\* mutation: the deprecated token is still taken for the staking token
IsStakingToken_OrDeprecated(pool_info, token_raw) ==
    \/ pool_info.staking_token = token_raw
    \/ /\ pool_info.migration_params # None
       /\ pool_info.migration_params[1].deprecated_staking_token = token_raw

\* pool_info.staking_token == token_raw
IsStakingToken(pool_info, token_raw) == pool_info.staking_token = token_raw

\* mutation: the transferred amount is not compared with the sum
AmountsMatch_Always(rs, cw20_amount) == TRUE

\* rewards_amount == cw20_msg.amount
AmountsMatch(rs, cw20_amount) == SumAmounts(rs, 1) = cw20_amount

receive_cw20(info_sender, cw20_sender, cw20_amount, hook) ==
    CASE hook.kind = "Bond" ->
           IF ~canonical_address(hook.asset_token).ok THEN Fail(ErrInvalidAddr)
           ELSE IF Canon(hook.asset_token) \notin DOMAIN pools THEN Fail(ErrNotFound)
           ELSE IF ~canonical_address(info_sender).ok THEN Fail(ErrInvalidAddr)
           ELSE
             LET pool_info == pools[Canon(hook.asset_token)]
                 token_raw == Canon(info_sender)
             IN IF ~IsStakingToken(pool_info, token_raw)
                THEN IF pool_info.migration_params # None
                        /\ pool_info.migration_params[1].deprecated_staking_token = token_raw
                     THEN Fail(ErrMigratedTo(human_address(pool_info.staking_token)))
                     ELSE Fail(ErrUnauthorized)
                ELSE bond(cw20_sender, hook.asset_token, cw20_amount)
      [] hook.kind = "DepositReward" ->
           IF ~canonical_address(info_sender).ok THEN Fail(ErrInvalidAddr)
           ELSE IF config.oraix_token # Canon(info_sender) THEN Fail(ErrUnauthorized)
           ELSE IF ~AmountsMatch(hook.rewards, cw20_amount) THEN Fail(ErrMismatch)
           ELSE deposit_reward(hook.rewards, SumAmounts(hook.rewards, 1))
      [] OTHER -> Fail(ErrInvalidHook)

(* ---------------------------- migrate ---------------------------------- *)
\* the structural fix-up: every pool record is rewritten in the current layout
\* mutation: the fix-up writes every record as one that was never migrated
migrate_pool_infos_DropMigration(p) ==
    [a \in DOMAIN p |-> [p[a] EXCEPT !.migration_params = None]]

migrate_pool_infos(p) ==
    [a \in DOMAIN p |->
        [staking_token |-> p[a].staking_token,
         total_bond_amount |-> p[a].total_bond_amount,
         total_short_amount |-> p[a].total_short_amount,
         reward_index |-> p[a].reward_index,
         short_reward_index |-> p[a].short_reward_index,
         pending_reward |-> p[a].pending_reward,
         short_pending_reward |-> p[a].short_pending_reward,
         premium_rate |-> p[a].premium_rate,
         short_reward_weight |-> p[a].short_reward_weight,
         premium_updated_time |-> p[a].premium_updated_time,
         migration_params |-> p[a].migration_params]]

migrate(asset_token_to_deprecate, new_staking_token) ==
    deprecate_on(migrate_pool_infos(pools), human_address(config.owner),
                 asset_token_to_deprecate, new_staking_token)

(* ---------------------------- inputs ----------------------------------- *)
\* the messages explored: for every handler the calls that succeed and at
\* least one call for each way it fails
AssetNames == {"asset1"}
AssetArgs == AssetNames \cup {BadAddr}
OwnerSenders == {"owner", "owner2"}
TokenArgs == {"lp1", "lp2", BadAddr}
Stakers == {"alice", "bob"}
Amounts == {0, 1, 2}
IntervalArgs == {None, Some(1)}
BoundArgs == {None, Some(<<Decimal_percent(5), Decimal_percent(50)>>)}
OwnerArgs == {None, Some("owner"), Some("owner2"), Some(BadAddr)}
Premiums == {Decimal_zero, Decimal_percent(10)}
RewardLists ==
    {<<<<a, n>>>> : a \in AssetArgs, n \in {0, 1, 3}}
        \cup {<<<<a, 1>>, <<b, 1>>>> : a \in AssetNames, b \in AssetNames}
PremiumLists ==
    {<<<<a, q>>>> : a \in AssetNames, q \in Premiums}
       \cup {<<<<a, q>>, <<a, Decimal_zero>>>> : a \in AssetNames, q \in {Decimal_percent(10)}}

\* UpdateConfig: <<owner, premium_min_update_interval, short_reward_bound>>
UpdateArgs ==
    {<<o, None, None>> : o \in OwnerArgs}
        \cup {<<None, i, b>> : i \in IntervalArgs, b \in BoundArgs}

\* RegisterAsset: <<sender, asset_token, staking_token>>
RegisterArgs ==
    {<<s, a, t>> : s \in OwnerSenders, a \in AssetNames, t \in {"lp1", BadAddr}}
        \cup {<<"owner", BadAddr, "lp1">>, <<"owner2", BadAddr, "lp1">>}

\* DeprecateStakingToken: <<sender, asset_token, new_staking_token>>
DeprecateArgs ==
    {<<s, a, t>> : s \in OwnerSenders, a \in AssetNames, t \in TokenArgs}
        \cup {<<"owner", BadAddr, "lp1">>, <<"owner2", BadAddr, "lp1">>}

\* Migrate: <<asset_token_to_deprecate, new_staking_token>>
MigrateArgs == {<<a, t>> : a \in AssetNames, t \in TokenArgs} \cup {<<BadAddr, "lp1">>}

\* Receive: <<info.sender, cw20 sender, cw20 amount, hook>>
ReceiveArgs ==
    {<<c, st, n, [kind |-> "Bond", asset_token |-> a]>> :
        c \in {"lp1", "lp2"}, st \in Stakers, n \in {1, 2}, a \in AssetNames}
    \cup {<<"oraix", "alice", 1, [kind |-> "Bond", asset_token |-> "asset1"]>>,
          <<"lp1", "alice", 0, [kind |-> "Bond", asset_token |-> "asset1"]>>,
          <<"lp1", "alice", 1, [kind |-> "Bond", asset_token |-> BadAddr]>>}
    \cup {<<"oraix", "alice", SumAmounts(rs, 1), [kind |-> "DepositReward", rewards |-> rs]>> :
        rs \in RewardLists}
    \cup {<<"lp1", "alice", 1, [kind |-> "DepositReward", rewards |-> <<<<"asset1", 1>>>>]>>,
          <<"oraix", "alice", 2, [kind |-> "DepositReward", rewards |-> <<<<"asset1", 1>>>>]>>}
    \cup {<<"lp1", "alice", 0, [kind |-> "none"]>>}

\* Unbond: <<sender, asset_token, amount>>
UnbondArgs ==
    {<<st, a, n>> : st \in Stakers, a \in AssetNames, n \in Amounts}
        \cup {<<"alice", BadAddr, 1>>}

\* Withdraw: <<sender, asset_token>>
WithdrawArgs == {<<st, a>> : st \in Stakers, a \in AssetNames} \cup {<<"alice", BadAddr>>}

\* IncreaseShortToken, DecreaseShortToken: <<sender, staker_addr, asset_token, amount>>
ShortArgs ==
    {<<"mint", "alice", a, 1>> : a \in AssetNames}
        \cup {<<"alice", "alice", "asset1", 1>>, <<"mint", "alice", BadAddr, 1>>}

(* ---------------------------- actions ---------------------------------- *)
\* the call leaves the storage different from what it found
Changes(r) == r.config # config \/ r.pools # pools \/ r.rewards # rewards

\* the transition of a call that ends as r: an error leaves the storage as it was
Commit(r) ==
    /\ Changes(r) => nops < MaxOps
    /\ config' = r.config
    /\ pools' = r.pools
    /\ rewards' = r.rewards
    /\ nops' = IF Changes(r) THEN nops + 1 ELSE nops

Ghosts == <<deposited, withdrawn, registered_ok, deprecated_ok>>

\* the positions of r stay within the bounds explored
WithinBounds(r) ==
    \A k \in DOMAIN r.rewards :
        r.rewards[k].bond_amount <= MaxBond /\ r.rewards[k].short_amount <= MaxShort

UpdateConfig ==
    \E sender \in OwnerSenders, m \in UpdateArgs :
        /\ Commit(update_config(sender, m[1], m[2], m[3]))
        /\ UNCHANGED <<now, Ghosts>>

RegisterAsset ==
    \E m \in RegisterArgs :
        LET a == m[2]
            r == register_asset(m[1], a, m[3]) IN
        /\ Commit(r)
        /\ deposited' = IF r.err = NoErr THEN Put(deposited, Canon(a), 0) ELSE deposited
        /\ withdrawn' = IF r.err = NoErr THEN Put(withdrawn, Canon(a), 0) ELSE withdrawn
        /\ registered_ok' = IF r.err = NoErr THEN registered_ok \cup {Canon(a)} ELSE registered_ok
        /\ UNCHANGED <<now, deprecated_ok>>

DeprecateStakingToken ==
    \E m \in DeprecateArgs :
        LET a == m[2]
            r == deprecate_staking_token(m[1], a, m[3]) IN
        /\ Commit(r)
        /\ deprecated_ok' = IF r.err = NoErr THEN deprecated_ok \cup {Canon(a)} ELSE deprecated_ok
        /\ UNCHANGED <<now, deposited, withdrawn, registered_ok>>

Migrate ==
    \E m \in MigrateArgs :
        LET a == m[1]
            r == migrate(a, m[2]) IN
        /\ Commit(r)
        /\ deprecated_ok' = IF r.err = NoErr THEN deprecated_ok \cup {Canon(a)} ELSE deprecated_ok
        /\ UNCHANGED <<now, deposited, withdrawn, registered_ok>>

\* the amount the list rs names for the asset with canonical address a
RECURSIVE AmountFor(_, _, _)
AmountFor(rs, a, i) ==
    IF i > Len(rs) THEN 0
    ELSE (IF Canon(rs[i][1]) = a THEN rs[i][2] ELSE 0) + AmountFor(rs, a, i + 1)

\* HandleMsg::Receive: the token contract info_sender forwards a transfer
Receive ==
    \E m \in ReceiveArgs :
        LET hook == m[4]
            r == receive_cw20(m[1], m[2], m[3], hook) IN
        /\ WithinBounds(r)
        /\ Commit(r)
        /\ deposited' = IF hook.kind = "DepositReward" /\ r.err = NoErr
                        THEN [a \in DOMAIN deposited |->
                                deposited[a] + AmountFor(hook.rewards, a, 1)]
                        ELSE deposited
        /\ UNCHANGED <<now, withdrawn, registered_ok, deprecated_ok>>

Unbond ==
    \E m \in UnbondArgs :
        /\ Commit(unbond(m[1], m[2], m[3]))
        /\ UNCHANGED <<now, Ghosts>>

Withdraw ==
    \E m \in WithdrawArgs :
        LET sender == m[1]
            a == m[2]
            r == withdraw_reward(sender, a) IN
        /\ Commit(r)
        /\ withdrawn' = IF r.err = NoErr /\ WithdrawAmount(sender, a) > 0
                        THEN [withdrawn EXCEPT ![Canon(a)] = @ + WithdrawAmount(sender, a)]
                        ELSE withdrawn
        /\ UNCHANGED <<now, deposited, registered_ok, deprecated_ok>>

IncreaseShortToken ==
    \E m \in ShortArgs :
        LET r == increase_short_token(m[1], m[2], m[3], m[4]) IN
        /\ WithinBounds(r)
        /\ Commit(r)
        /\ UNCHANGED <<now, Ghosts>>

DecreaseShortToken ==
    \E m \in ShortArgs :
        /\ Commit(decrease_short_token(m[1], m[2], m[3], m[4]))
        /\ UNCHANGED <<now, Ghosts>>

AdjustPremium ==
    \E as \in PremiumLists :
        /\ Commit(adjust_premium(now, as))
        /\ UNCHANGED <<now, Ghosts>>

\* block time advances between transactions
Tick ==
    /\ now < MaxTime
    /\ nops < MaxOps
    /\ now' = now + 1
    /\ nops' = nops + 1
    /\ UNCHANGED <<config, pools, rewards, Ghosts>>

Next ==
    \/ UpdateConfig
    \/ RegisterAsset
    \/ DeprecateStakingToken
    \/ Migrate
    \/ Receive
    \/ Unbond
    \/ Withdraw
    \/ IncreaseShortToken
    \/ DecreaseShortToken
    \/ AdjustPremium
    \/ Tick

Spec == Init /\ [][Next]_vars

(* ---------------------------- the premium clock ------------------------ *)
\* The premium engine over a longer stretch of block time: the owner registers
\* the asset and retunes premium_min_update_interval, anyone calls
\* AdjustPremium, and the block time advances up to MaxPremTime.
PremIntervals == {Some(1), Some(2), Some(3)}

\* the storage after the call that ends as r, outside the step budget
Store(r) ==
    /\ config' = r.config
    /\ pools' = r.pools
    /\ rewards' = r.rewards
    /\ UNCHANGED nops

PremRegisterAsset ==
    \E a \in AssetNames :
        LET r == register_asset(human_address(config.owner), a, "lp1") IN
        /\ r.err = NoErr
        /\ Store(r)
        /\ deposited' = Put(deposited, Canon(a), 0)
        /\ withdrawn' = Put(withdrawn, Canon(a), 0)
        /\ registered_ok' = registered_ok \cup {Canon(a)}
        /\ UNCHANGED <<now, deprecated_ok>>

PremUpdateConfig ==
    \E sender \in OwnerSenders, i \in PremIntervals, b \in BoundArgs :
        /\ Store(update_config(sender, None, i, b))
        /\ UNCHANGED <<now, Ghosts>>

PremAdjustPremium ==
    \E as \in PremiumLists \cup {<<<<BadAddr, Decimal_zero>>>>} :
        /\ Store(adjust_premium(now, as))
        /\ UNCHANGED <<now, Ghosts>>

PremTick ==
    /\ now < MaxPremTime
    /\ now' = now + 1
    /\ UNCHANGED <<config, pools, rewards, nops, Ghosts>>

NextPremium ==
    \/ PremRegisterAsset
    \/ PremUpdateConfig
    \/ PremAdjustPremium
    \/ PremTick

SpecPremium == Init /\ [][NextPremium]_vars

(* ---------------------------- two assets ------------------------------- *)
\* The registry with two assets: the owner registers and deprecates, stakers
\* bond through the staking tokens, the reward token deposits for one asset
\* or for both in one transfer.
TwoAssets == {"asset1", "asset2"}
TwoTokens == {"lp1", "lp2"}
TwoRewardLists ==
    {<<<<a, n>>>> : a \in TwoAssets, n \in {1, 3}}
        \cup {<<<<"asset1", 1>>, <<"asset2", 1>>>>}

\* the storage after the call that ends as r, within the budget MaxTwoOps
TwoCommit(r) ==
    /\ Changes(r) => nops < MaxTwoOps
    /\ config' = r.config
    /\ pools' = r.pools
    /\ rewards' = r.rewards
    /\ nops' = IF Changes(r) THEN nops + 1 ELSE nops

TwoRegisterAsset ==
    \E a \in TwoAssets, t \in TwoTokens :
        LET r == register_asset(human_address(config.owner), a, t) IN
        /\ TwoCommit(r)
        /\ deposited' = IF r.err = NoErr THEN Put(deposited, Canon(a), 0) ELSE deposited
        /\ withdrawn' = IF r.err = NoErr THEN Put(withdrawn, Canon(a), 0) ELSE withdrawn
        /\ registered_ok' = IF r.err = NoErr THEN registered_ok \cup {Canon(a)} ELSE registered_ok
        /\ UNCHANGED <<now, deprecated_ok>>

TwoDeprecateStakingToken ==
    \E a \in TwoAssets, t \in TwoTokens :
        LET r == deprecate_staking_token(human_address(config.owner), a, t) IN
        /\ TwoCommit(r)
        /\ deprecated_ok' = IF r.err = NoErr THEN deprecated_ok \cup {Canon(a)} ELSE deprecated_ok
        /\ UNCHANGED <<now, deposited, withdrawn, registered_ok>>

TwoBond ==
    \E c \in TwoTokens, st \in Stakers, a \in TwoAssets :
        LET r == receive_cw20(c, st, 1, [kind |-> "Bond", asset_token |-> a]) IN
        /\ WithinBounds(r)
        /\ TwoCommit(r)
        /\ UNCHANGED <<now, Ghosts>>

TwoDepositReward ==
    \E rs \in TwoRewardLists :
        LET r == receive_cw20("oraix", "alice", SumAmounts(rs, 1),
                              [kind |-> "DepositReward", rewards |-> rs]) IN
        /\ TwoCommit(r)
        /\ deposited' = IF r.err = NoErr
                        THEN [a \in DOMAIN deposited |-> deposited[a] + AmountFor(rs, a, 1)]
                        ELSE deposited
        /\ UNCHANGED <<now, withdrawn, registered_ok, deprecated_ok>>

NextTwo ==
    \/ TwoRegisterAsset
    \/ TwoDeprecateStakingToken
    \/ TwoBond
    \/ TwoDepositReward

SpecTwo == Init /\ [][NextTwo]_vars

(* ---------------------------- properties ------------------------------- *)
ValidNames == {Addrs[i] : i \in 1..Len(Addrs)}
OwnerName == human_address(config.owner)
Unchanged(r) == r.config = config /\ r.pools = pools /\ r.rewards = rewards
RegisteredNames == {a \in AssetNames : Canon(a) \in DOMAIN pools}
BondHook(a) == [kind |-> "Bond", asset_token |-> a]
DepositHook(rs) == [kind |-> "DepositReward", rewards |-> rs]

\* C1: once a DeprecateStakingToken call has succeeded for an asset, every
\* later call by the owner on that asset, with any new token, fails with the
\* already-migrated error and leaves the storage as it was.
C1_DeprecateSingleShot ==
    \A a \in AssetNames, t \in TokenArgs :
        Canon(a) \in deprecated_ok =>
            LET r == deprecate_staking_token(OwnerName, a, t)
            IN r.err = ErrAlreadyMigrated /\ Unchanged(r)

\* a deprecation has succeeded, stakers still hold positions, and a second
\* call by the owner naming another token is refused
C1_Witness ==
    \E a \in AssetNames :
        /\ Canon(a) \in deprecated_ok
        /\ rewards # EmptyMap
        /\ \E t \in TokenArgs :
              /\ canonical_address(t).ok
              /\ Canon(t) # pools[Canon(a)].staking_token
              /\ deprecate_staking_token(OwnerName, a, t).err = ErrAlreadyMigrated

\* C2: a successful DeprecateStakingToken(asset, new_token) on a pool with no
\* migration leaves index_snapshot = the reward_index before the call,
\* deprecated_staking_token = the staking_token before the call,
\* total_bond_amount = 0 and staking_token = new_token.
C2_DeprecateSnapshot ==
    \A sender \in OwnerSenders, a \in AssetArgs, t \in TokenArgs :
        LET r == deprecate_staking_token(sender, a, t)
        IN r.err = NoErr =>
            /\ pools[Canon(a)].migration_params = None
            /\ r.pools[Canon(a)].migration_params =
                 Some([index_snapshot |-> pools[Canon(a)].reward_index,
                       deprecated_staking_token |-> pools[Canon(a)].staking_token])
            /\ r.pools[Canon(a)].total_bond_amount = 0
            /\ r.pools[Canon(a)].staking_token = Canon(t)

\* a pool that has earned rewards and holds bonded stake can be deprecated
\* to a token different from the current one
C2_Witness ==
    \E a \in RegisteredNames, t \in TokenArgs :
        /\ pools[Canon(a)].reward_index > 0
        /\ pools[Canon(a)].total_bond_amount > 0
        /\ deprecate_staking_token(OwnerName, a, t).err = NoErr
        /\ Canon(t) # pools[Canon(a)].staking_token

\* C3: after a successful DeprecateStakingToken, every Bond hook called by
\* the deprecated token is rejected with the "migrated to <new token>"
\* message and changes nothing, whatever new token the deprecation named.
C3_OldTokenRedirected ==
    \A a \in AssetNames :
        Canon(a) \in deprecated_ok =>
            LET pool_info == pools[Canon(a)]
                old == human_address(pool_info.migration_params[1].deprecated_staking_token)
            IN \A st \in Stakers, n \in Amounts :
                  LET r == receive_cw20(old, st, n, BondHook(a))
                  IN /\ r.err = ErrMigratedTo(human_address(pool_info.staking_token))
                     /\ Unchanged(r)

\* C4: the Bond hook changes the storage only when the calling token is the
\* pool's current staking_token; a caller that is neither the current nor the
\* deprecated token gets "unauthorized" and nothing changes; for an
\* unregistered asset the hook fails and nothing changes.
C4_BondGate ==
    \A caller \in ValidNames, st \in Stakers, n \in Amounts, a \in AssetArgs :
        LET r == receive_cw20(caller, st, n, BondHook(a))
        IN IF a \in RegisteredNames
           THEN LET pool_info == pools[Canon(a)]
                IN /\ Changes(r) => Canon(caller) = pool_info.staking_token
                   /\ (/\ Canon(caller) # pool_info.staking_token
                       /\ \/ pool_info.migration_params = None
                          \/ pool_info.migration_params[1].deprecated_staking_token
                                # Canon(caller))
                      => r.err = ErrUnauthorized /\ Unchanged(r)
           ELSE r.err # NoErr /\ Unchanged(r)

\* a migrated pool with bonded positions: a third token is turned away as
\* unauthorized while the current token is let through to the bond engine
C4_Witness ==
    \E a \in RegisteredNames :
        /\ pools[Canon(a)].migration_params # None
        /\ pools[Canon(a)].total_bond_amount > 0
        /\ receive_cw20("oraix", "alice", 1, BondHook(a)).err = ErrUnauthorized
        /\ receive_cw20(human_address(pools[Canon(a)].staking_token), "alice", 1,
                        BondHook(a)).err = NoErr

\* C5: the DepositReward hook reaches the distribution engine only when the
\* caller is the reward token and the amounts sum to the transferred total;
\* another caller gets the authorization error whatever the amounts, a wrong
\* sum gets the mismatch error, and neither changes any pool.
C5_DepositGate ==
    \A caller \in ValidNames, rs \in RewardLists, n \in 0..4 :
        LET r == receive_cw20(caller, "alice", n, DepositHook(rs))
        IN /\ Canon(caller) # config.oraix_token
                => r.err = ErrUnauthorized /\ Unchanged(r)
           /\ (Canon(caller) = config.oraix_token /\ SumAmounts(rs, 1) # n)
                => r.err = ErrMismatch /\ Unchanged(r)
           /\ Changes(r)
                => Canon(caller) = config.oraix_token /\ SumAmounts(rs, 1) = n

\* a pool with bonded stake, where a matching deposit from the reward token
\* is distributed and the same deposit from the staking token or with a wrong
\* total is refused
C5_Witness ==
    \E a \in RegisteredNames :
        /\ pools[Canon(a)].total_bond_amount > 0
        /\ Changes(receive_cw20("oraix", "alice", 1, DepositHook(<<<<a, 1>>>>)))
        /\ receive_cw20("lp1", "alice", 1, DepositHook(<<<<a, 1>>>>)).err = ErrUnauthorized
        /\ receive_cw20("oraix", "alice", 2, DepositHook(<<<<a, 1>>>>)).err = ErrMismatch

\* C6 (as stated): RegisterAsset, DeprecateStakingToken and UpdateConfig
\* called by anyone but the stored owner fail with "unauthorized" and leave
\* the storage as it was, whatever the other arguments.
C6_OwnerOnlyUnauthorized ==
    \A sender \in OwnerSenders \cup {"alice"} :
        Canon(sender) # config.owner =>
            /\ \A o \in OwnerArgs, i \in IntervalArgs, b \in BoundArgs :
                  LET r == update_config(sender, o, i, b)
                  IN r.err = ErrUnauthorized /\ Unchanged(r)
            /\ \A a \in AssetArgs, t \in TokenArgs :
                  /\ LET r == register_asset(sender, a, t)
                     IN r.err = ErrUnauthorized /\ Unchanged(r)
                  /\ LET r == deprecate_staking_token(sender, a, t)
                     IN r.err = ErrUnauthorized /\ Unchanged(r)

\* C6 (amended): the three calls by anyone but the stored owner fail and
\* leave the storage as it was; the error is "unauthorized" for UpdateConfig,
\* and for RegisterAsset and DeprecateStakingToken whenever asset_token is a
\* well-formed address (a malformed one is refused before the owner check).
C6_OwnerOnly ==
    \A sender \in OwnerSenders \cup {"alice"} :
        Canon(sender) # config.owner =>
            /\ \A o \in OwnerArgs, i \in IntervalArgs, b \in BoundArgs :
                  LET r == update_config(sender, o, i, b)
                  IN r.err = ErrUnauthorized /\ Unchanged(r)
            /\ \A a \in AssetArgs, t \in TokenArgs :
                  /\ LET r == register_asset(sender, a, t)
                     IN /\ r.err # NoErr /\ Unchanged(r)
                        /\ canonical_address(a).ok => r.err = ErrUnauthorized
                  /\ LET r == deprecate_staking_token(sender, a, t)
                     IN /\ r.err # NoErr /\ Unchanged(r)
                        /\ canonical_address(a).ok => r.err = ErrUnauthorized

\* ownership has moved to another identity, a pool exists and another asset
\* could be registered by the owner: the former owner is turned away
C6_Witness ==
    /\ config.owner # Canon(InitOwner)
    /\ pools # EmptyMap
    /\ \E a \in RegisteredNames :
          /\ pools[Canon(a)].migration_params = None
          /\ deprecate_staking_token(InitOwner, a, "lp2").err = ErrUnauthorized
          /\ deprecate_staking_token(OwnerName, a, "lp2").err = NoErr
    /\ register_asset(InitOwner, "asset1", "lp1").err = ErrUnauthorized
    /\ update_config(InitOwner, Some(InitOwner), None, None).err = ErrUnauthorized

\* C7: RegisterAsset by the owner for a registered asset fails with the
\* already-registered error and leaves the pool as it was; a registered pool
\* is never deleted by any operation.
C7_RegisterOnce ==
    /\ \A a \in AssetNames, t \in TokenArgs :
          Canon(a) \in registered_ok =>
              LET r == register_asset(OwnerName, a, t)
              IN r.err = ErrAlreadyRegistered /\ Unchanged(r)
    /\ registered_ok \subseteq DOMAIN pools

\* a pool that has rewards and a migration, which a second registration
\* would wipe out
C7_Witness ==
    \E a \in RegisteredNames :
        /\ Canon(a) \in registered_ok
        /\ pools[Canon(a)].migration_params # None
        /\ pools[Canon(a)].reward_index > 0
        /\ register_asset(OwnerName, a, "lp1").err = ErrAlreadyRegistered

\* reward accrued by a position since its checkpoint
Accrued(pool_info, ri) ==
    MulDec(ri.bond_amount, pool_info.reward_index - ri.index)
        + MulDec(ri.short_amount, pool_info.short_reward_index - ri.short_index)

\* what the positions in the key set K can claim
RECURSIVE Claims(_)
Claims(K) ==
    IF K = {} THEN 0
    ELSE LET k == CHOOSE x \in K : TRUE
         IN rewards[k].pending_reward + Accrued(pools[k[2]], rewards[k]) + Claims(K \ {k})

PositionsOf(a) == {k \in DOMAIN rewards : k[2] = a}

\* C8: for every asset, the stakers' pending rewards plus their accrual since
\* the checkpoint plus the pool's pending remainders (plus what was already
\* paid out) equal the total reward ever deposited for the asset.
C8_Conservation ==
    \A a \in DOMAIN pools :
        Claims(PositionsOf(a)) + pools[a].pending_reward + pools[a].short_pending_reward
            + withdrawn[a] = deposited[a]

\* C9: reward_index and short_reward_index of a registered asset never
\* decrease across a step.
C9_IndexMonotonic ==
    [][\A a \in DOMAIN pools :
          /\ a \in DOMAIN pools'
          /\ pools'[a].reward_index >= pools[a].reward_index
          /\ pools'[a].short_reward_index >= pools[a].short_reward_index]_vars

\* the pool has been migrated and its index has grown past the snapshot
C9_Witness ==
    \E a \in DOMAIN pools :
        /\ pools[a].migration_params # None
        /\ pools[a].reward_index > pools[a].migration_params[1].index_snapshot

\* the pool after the reward token deposits n for the asset named a
AfterDeposit(p, a, n) == deposit_from(p, <<<<a, n>>>>, 1).pools[Canon(a)]

DepositAmounts == {0, 1, 3}

\* C10 (as stated): with total_bond_amount zero an accepted deposit leaves
\* reward_index unchanged and the whole deposited amount goes to
\* pending_reward; with total_short_amount zero short_reward_index is
\* unchanged and the short side's share goes to short_pending_reward.
C10_NoRewardWithoutStake ==
    \A a \in RegisteredNames, n \in DepositAmounts :
        LET r == receive_cw20("oraix", "alice", n, DepositHook(<<<<a, n>>>>))
            old == pools[Canon(a)]
            new == r.pools[Canon(a)]
        IN /\ r.err = NoErr
           /\ old.total_bond_amount = 0 =>
                 /\ new.reward_index = old.reward_index
                 /\ new.pending_reward = old.pending_reward + n
           /\ old.total_short_amount = 0 =>
                 /\ new.short_reward_index = old.short_reward_index
                 /\ new.short_pending_reward =
                       old.short_pending_reward + MulDec(n, old.short_reward_weight)

\* C10 (amended): with total_bond_amount zero (also right after RegisterAsset
\* and right after a successful DeprecateStakingToken) an accepted deposit
\* leaves reward_index unchanged and the long side's share, the amount less
\* amount * short_reward_weight, goes to pending_reward; with
\* total_short_amount zero short_reward_index is unchanged and the short
\* side's share goes to short_pending_reward.
C10_NoIndexWithoutStake ==
    /\ \A a \in RegisteredNames, n \in DepositAmounts :
          LET r == receive_cw20("oraix", "alice", n, DepositHook(<<<<a, n>>>>))
              old == pools[Canon(a)]
              new == r.pools[Canon(a)]
          IN /\ r.err = NoErr
             /\ old.total_bond_amount = 0 =>
                   /\ new.reward_index = old.reward_index
                   /\ new.pending_reward = old.pending_reward + n
                                             - MulDec(n, old.short_reward_weight)
             /\ old.total_short_amount = 0 =>
                   /\ new.short_reward_index = old.short_reward_index
                   /\ new.short_pending_reward =
                         old.short_pending_reward + MulDec(n, old.short_reward_weight)
    /\ \A a \in RegisteredNames, t \in TokenArgs, n \in DepositAmounts :
          LET r == deprecate_staking_token(OwnerName, a, t)
              old == pools[Canon(a)]
          IN r.err = NoErr =>
                /\ AfterDeposit(r.pools, a, n).reward_index = old.reward_index
                /\ AfterDeposit(r.pools, a, n).pending_reward =
                      old.pending_reward + n - MulDec(n, old.short_reward_weight)
    /\ \A a \in AssetNames, t \in TokenArgs, n \in DepositAmounts :
          LET r == register_asset(OwnerName, a, t)
          IN r.err = NoErr =>
                /\ AfterDeposit(r.pools, a, n).reward_index = Decimal_zero
                /\ AfterDeposit(r.pools, a, n).short_reward_index = Decimal_zero
                /\ AfterDeposit(r.pools, a, n).pending_reward = n

\* a pool with bonded stake and a positive short weight that can be
\* deprecated, so that the next deposit meets an empty long side
C10_Witness ==
    \E a \in RegisteredNames :
        /\ pools[Canon(a)].total_bond_amount > 0
        /\ pools[Canon(a)].short_reward_weight > 0
        /\ deprecate_staking_token(OwnerName, a, "lp2").err = NoErr

\* what the position k holds as pending reward in the position map rw
PendingOf(rw, k) == IF k \in DOMAIN rw THEN rw[k].pending_reward ELSE 0

\* C11: a staker who bonded before DeprecateStakingToken and unbonds any
\* amount up to the bonded amount afterwards succeeds and is credited
\* (index_snapshot - stored index) x bonded amount, whatever is deposited
\* after the deprecation; a position bonded under the new token starts at the
\* reward_index of its bond time.
C11_SnapshotStability ==
    \A a \in RegisteredNames, st \in Stakers, d \in DepositAmounts :
        LET k == <<Canon(st), Canon(a)>>
            pool_info == pools[Canon(a)]
            p2 == deposit_from(pools, <<<<a, d>>>>, 1).pools
        IN \* nothing is bonded under the new token, so the position is an old one
           (/\ Canon(a) \in deprecated_ok
            /\ pool_info.total_bond_amount = 0
            /\ k \in DOMAIN rewards
            /\ rewards[k].bond_amount > 0) =>
              /\ \A n \in 1..rewards[k].bond_amount :
                    LET u == unbond_on(p2, rewards, st, a, n)
                    IN /\ u.err = NoErr
                       /\ PendingOf(u.rewards, k) - rewards[k].pending_reward =
                             MulDec(rewards[k].bond_amount,
                                    pool_info.migration_params[1].index_snapshot
                                        - rewards[k].index)
                             + MulDec(rewards[k].short_amount,
                                      p2[Canon(a)].short_reward_index - rewards[k].short_index)
              /\ \A st2 \in Stakers :
                    LET k2 == <<Canon(st2), Canon(a)>>
                        b == bond_on(p2, rewards, st2, a, 1)
                    IN k2 \notin DOMAIN rewards =>
                          b.err = NoErr /\ b.rewards[k2].index = p2[Canon(a)].reward_index

\* the stakers that hold no position on the asset named a
NewBonders(a) == {st \in Stakers : <<Canon(st), Canon(a)>> \notin DOMAIN rewards}

\* C12 as stated: with nobody bonded and R > 0 pending, a new bond followed by
\* a deposit of 0 leaves the bonder with no claim and R still pending.
C12_ZeroDepositKeepsPending ==
    \A a \in RegisteredNames : \A st \in NewBonders(a), n \in 1..MaxBond :
        LET k == <<Canon(st), Canon(a)>>
            pool_info == pools[Canon(a)]
            b == bond_on(pools, rewards, st, a, n)
            after == AfterDeposit(b.pools, a, 0)
        IN (pool_info.total_bond_amount = 0 /\ pool_info.pending_reward > 0) =>
              /\ b.err = NoErr
              /\ Accrued(after, b.rewards[k]) = 0
              /\ after.pending_reward = pool_info.pending_reward

\* C12: with nobody bonded and R > 0 pending, a new bond leaves R pending and
\* gives the bonder no claim; the next deposit for the asset, a deposit of 0
\* included, folds floor(R / bond) into reward_index, so that the bonder's
\* claim and the remainder left pending add up to R.
C12_PendingFoldedByNextDeposit ==
    \A a \in RegisteredNames : \A st \in NewBonders(a), n \in 1..MaxBond :
        LET k == <<Canon(st), Canon(a)>>
            pool_info == pools[Canon(a)]
            R == pool_info.pending_reward
            b == bond_on(pools, rewards, st, a, n)
            after == AfterDeposit(b.pools, a, 0)
        IN (pool_info.total_bond_amount = 0 /\ R > 0) =>
              /\ b.err = NoErr
              /\ b.pools[Canon(a)].pending_reward = R
              /\ b.pools[Canon(a)].reward_index = pool_info.reward_index
              /\ Accrued(b.pools[Canon(a)], b.rewards[k]) = 0
              /\ after.reward_index = pool_info.reward_index + Decimal_from_ratio(R, n)
              /\ Accrued(after, b.rewards[k]) = MulDec(n, Decimal_from_ratio(R, n))
              /\ Accrued(after, b.rewards[k]) + after.pending_reward = R

\* a reward is pending on a pool with nobody bonded, and a new bonder exists
C12_Witness ==
    \E a \in RegisteredNames :
        /\ pools[Canon(a)].total_bond_amount = 0
        /\ pools[Canon(a)].pending_reward > 0
        /\ deposited[Canon(a)] > 0
        /\ NewBonders(a) # {}

\* the premium state of a pool record
PremiumState(pool_info) ==
    <<pool_info.premium_rate, pool_info.short_reward_weight, pool_info.premium_updated_time>>

\* the asset's last adjustment is less than premium_min_update_interval old
InsideWindow(a) ==
    now < pools[a].premium_updated_time + config.premium_min_update_interval

\* C13: an AdjustPremium call made less than premium_min_update_interval
\* seconds after an asset's premium_updated_time leaves premium_rate,
\* short_reward_weight and premium_updated_time of that asset unchanged, and
\* every step that changes them moves premium_updated_time forward by at least
\* premium_min_update_interval.
C13_PremiumRateLimiter ==
    /\ [](\A a \in RegisteredNames, as \in PremiumLists :
             InsideWindow(Canon(a)) =>
                 LET r == adjust_premium(now, as)
                 IN r.err = NoErr
                    /\ PremiumState(r.pools[Canon(a)]) = PremiumState(pools[Canon(a)]))
    /\ [][\A a \in DOMAIN pools :
             /\ a \in DOMAIN pools'
             /\ PremiumState(pools'[a]) # PremiumState(pools[a]) =>
                   /\ pools'[a].premium_updated_time = now
                   /\ pools'[a].premium_updated_time >=
                         pools[a].premium_updated_time + config.premium_min_update_interval]_vars

\* an adjusted asset is inside its window at a later block time
C13_Witness ==
    \E a \in RegisteredNames :
        /\ pools[Canon(a)].premium_updated_time > 0
        /\ pools[Canon(a)].premium_rate > 0
        /\ now > pools[Canon(a)].premium_updated_time
        /\ InsideWindow(Canon(a))

\* the call that ends as r has failed and left the storage as it found it
FailedClean(r) == r.err # NoErr => Unchanged(r)

ShortAndAccumulators(pool_info) ==
    [total_short_amount |-> pool_info.total_short_amount,
     short_reward_index |-> pool_info.short_reward_index,
     short_pending_reward |-> pool_info.short_pending_reward,
     premium_rate |-> pool_info.premium_rate,
     short_reward_weight |-> pool_info.short_reward_weight,
     premium_updated_time |-> pool_info.premium_updated_time,
     reward_index |-> pool_info.reward_index,
     pending_reward |-> pool_info.pending_reward]

\* C15: a successful DeprecateStakingToken leaves total_short_amount,
\* short_reward_index, short_pending_reward, premium_rate, short_reward_weight,
\* premium_updated_time, reward_index and pending_reward of the asset as they
\* were, and changes nothing else in the storage; the same holds for the step
\* that records a migration.
C15_DeprecateFrame ==
    /\ [](\A a \in RegisteredNames, t \in TokenArgs :
             LET r == deprecate_staking_token(OwnerName, a, t)
             IN r.err = NoErr =>
                  /\ ShortAndAccumulators(r.pools[Canon(a)]) =
                        ShortAndAccumulators(pools[Canon(a)])
                  /\ DOMAIN r.pools = DOMAIN pools
                  /\ \A b \in DOMAIN pools \ {Canon(a)} : r.pools[b] = pools[b]
                  /\ r.config = config
                  /\ r.rewards = rewards)
    /\ [][\A a \in DOMAIN pools :
             (a \in DOMAIN pools' /\ pools[a].migration_params = None
                  /\ pools'[a].migration_params # None) =>
                ShortAndAccumulators(pools'[a]) = ShortAndAccumulators(pools[a])]_vars

\* a deprecation succeeds on a pool with a short side and a pending remainder
C15_Witness ==
    \E a \in RegisteredNames :
        /\ deprecate_staking_token(OwnerName, a, "lp2").err = NoErr
        /\ pools[Canon(a)].total_short_amount > 0
        /\ pools[Canon(a)].pending_reward > 0

\* the four operations of C16 on the asset named a, as records
OpsOn(a) ==
    {[kind |-> "RegisterAsset", asset |-> a, token |-> t, staker |-> "alice", amount |-> 0] :
        t \in TwoTokens}
    \cup {[kind |-> "DeprecateStakingToken", asset |-> a, token |-> t, staker |-> "alice",
           amount |-> 0] : t \in TwoTokens}
    \cup {[kind |-> "Bond", asset |-> a, token |-> t, staker |-> st, amount |-> n] :
             t \in TwoTokens, st \in Stakers, n \in {1}}
    \cup {[kind |-> "DepositReward", asset |-> a, token |-> "oraix", staker |-> "alice",
           amount |-> n] : n \in {1, 3}}

\* the pools and positions after the operation op has run over <<p, rw>>; a
\* failed operation leaves them as they were
ApplyOp(p, rw, op) ==
    CASE op.kind = "RegisterAsset" ->
           LET r == register_on(p, OwnerName, op.asset, op.token)
           IN [pools |-> IF r.err = NoErr THEN r.pools ELSE p, rewards |-> rw]
      [] op.kind = "DeprecateStakingToken" ->
           LET r == deprecate_on(p, OwnerName, op.asset, op.token)
           IN [pools |-> IF r.err = NoErr THEN r.pools ELSE p, rewards |-> rw]
      [] op.kind = "Bond" ->
           IF Canon(op.asset) \in DOMAIN p
              /\ IsStakingToken(p[Canon(op.asset)], Canon(op.token))
           THEN LET r == bond_on(p, rw, op.staker, op.asset, op.amount)
                IN IF r.err = NoErr THEN [pools |-> r.pools, rewards |-> r.rewards]
                   ELSE [pools |-> p, rewards |-> rw]
           ELSE [pools |-> p, rewards |-> rw]
      [] OTHER ->
           LET r == deposit_from(p, <<<<op.asset, op.amount>>>>, 1)
           IN [pools |-> IF r.ok THEN r.pools ELSE p, rewards |-> rw]

\* C16: RegisterAsset, DeprecateStakingToken, Bond and a DepositReward entry
\* for one asset leave the PoolInfo and the positions of every other asset as
\* they were, and two such operations on distinct assets reach the same
\* storage in either order.
C16_AssetsIndependent ==
    \A a \in TwoAssets, b \in TwoAssets :
        a # b =>
          \A op1 \in OpsOn(a) :
              LET s1 == ApplyOp(pools, rewards, op1)
              IN /\ (Canon(b) \in DOMAIN s1.pools) = (Canon(b) \in DOMAIN pools)
                 /\ Canon(b) \in DOMAIN pools => s1.pools[Canon(b)] = pools[Canon(b)]
                 /\ \A k \in DOMAIN rewards :
                       k[2] = Canon(b) => k \in DOMAIN s1.rewards /\ s1.rewards[k] = rewards[k]
                 /\ \A k \in DOMAIN s1.rewards : k[2] = Canon(b) => k \in DOMAIN rewards
                 /\ \A op2 \in OpsOn(b) :
                       LET s2 == ApplyOp(pools, rewards, op2)
                       IN ApplyOp(s1.pools, s1.rewards, op2) = ApplyOp(s2.pools, s2.rewards, op1)

\* both assets are registered with the same staking token, one is staked and
\* has an index, and a deprecation of the other would succeed
C16_Witness ==
    /\ {Canon(a) : a \in TwoAssets} \subseteq DOMAIN pools
    /\ pools[Canon("asset1")].staking_token = pools[Canon("asset2")].staking_token
    /\ pools[Canon("asset1")].total_bond_amount > 0
    /\ pools[Canon("asset1")].reward_index > 0
    /\ deprecate_staking_token(OwnerName, "asset2", "lp2").err = NoErr

\* the value a partial update leaves in a field: the supplied one, or the old
Updated(arg, old) == IF arg # None THEN arg[1] ELSE old

\* C17: UpdateConfig by the owner replaces each of owner,
\* premium_min_update_interval and short_reward_bound that is supplied, keeps
\* each one that is omitted, and changes neither the reward-token, mint,
\* oracle and factory identities, nor the base denomination, nor a PoolInfo.
C17_PartialUpdate ==
    \A o \in OwnerArgs, i \in IntervalArgs \cup {Some(2)}, b \in BoundArgs :
        LET r == update_config(OwnerName, o, i, b)
        IN /\ r.err = NoErr <=> (o = None \/ canonical_address(o[1]).ok)
           /\ r.err = NoErr =>
                /\ r.config.owner = (IF o # None THEN Canon(o[1]) ELSE config.owner)
                /\ r.config.premium_min_update_interval =
                      Updated(i, config.premium_min_update_interval)
                /\ r.config.short_reward_bound = Updated(b, config.short_reward_bound)
                /\ r.config.oraix_token = config.oraix_token
                /\ r.config.mint_contract = config.mint_contract
                /\ r.config.oracle_contract = config.oracle_contract
                /\ r.config.oraiswap_factory = config.oraiswap_factory
                /\ r.config.base_denom = config.base_denom
                /\ r.pools = pools
                /\ r.rewards = rewards

\* the owner and the bound have been replaced while a pool exists
C17_Witness ==
    /\ config.owner = Canon("owner2")
    /\ config.short_reward_bound = <<Decimal_percent(5), Decimal_percent(50)>>
    /\ config.premium_min_update_interval = InitInterval
    /\ DOMAIN pools # {}

\* the owner-only calls the identity s can make, by their errors
OwnerOnlyErrors(s, assets) ==
    {update_config(s, o, i, b).err : o \in OwnerArgs, i \in IntervalArgs, b \in BoundArgs}
        \cup {register_asset(s, a, t).err : a \in assets, t \in TokenArgs}
        \cup {deprecate_staking_token(s, a, t).err : a \in assets, t \in TokenArgs}

\* C18 as stated: once the owner has handed ownership to another identity,
\* every later RegisterAsset, DeprecateStakingToken and UpdateConfig call by
\* the old owner fails with "unauthorized" (taken here for calls with a
\* well-formed asset_token).
C18_OldOwnerLockedOut ==
    /\ [](config.owner # Canon(InitOwner) =>
             OwnerOnlyErrors(InitOwner, AssetNames) = {ErrUnauthorized})
    /\ [][config.owner # Canon(InitOwner) => config'.owner # Canon(InitOwner)]_vars

\* C18: UpdateConfig by the owner with owner = N stores N as the owner at
\* once; in every state the stored owner is the one identity that passes the
\* authorization check of the three owner-only calls, and every call of
\* another identity with a well-formed asset_token fails with "unauthorized".
C18_OwnershipTransfer ==
    /\ \A n \in OwnerSenders :
          LET r == update_config(OwnerName, Some(n), None, None)
          IN r.err = NoErr /\ r.config.owner = Canon(n)
    /\ \A s \in OwnerSenders \cup {"alice"} :
          IF Canon(s) = config.owner
          THEN ErrUnauthorized \notin OwnerOnlyErrors(s, AssetArgs)
          ELSE OwnerOnlyErrors(s, AssetNames) = {ErrUnauthorized}

\* the owner is owner2, the first owner is turned away, and owner2 can hand
\* the ownership back
C18_Witness ==
    /\ config.owner = Canon("owner2")
    /\ OwnerOnlyErrors(InitOwner, AssetNames) = {ErrUnauthorized}
    /\ update_config("owner2", Some(InitOwner), None, None).config.owner = Canon(InitOwner)

\* C19: once migration_params of an asset is present, it stays present with
\* the same index_snapshot and deprecated_staking_token across every step.
C19_MigrationParamsImmutable ==
    [][\A a \in DOMAIN pools :
          pools[a].migration_params # None =>
              /\ a \in DOMAIN pools'
              /\ pools'[a].migration_params = pools[a].migration_params]_vars

\* a migrated pool has been bonded under the new token and received a reward
C19_Witness ==
    \E a \in RegisteredNames :
        /\ pools[Canon(a)].migration_params # None
        /\ pools[Canon(a)].staking_token #
              pools[Canon(a)].migration_params[1].deprecated_staking_token
        /\ pools[Canon(a)].total_bond_amount > 0
        /\ deposited[Canon(a)] > 0

\* C20: for every asset whose migration_params is present, index_snapshot is
\* at most the pool's current reward_index.
C20_SnapshotBelowIndex ==
    \A a \in DOMAIN pools :
        pools[a].migration_params # None =>
            pools[a].migration_params[1].index_snapshot <= pools[a].reward_index

\* a pool was deprecated after its reward_index had risen
C20_Witness ==
    \E a \in DOMAIN pools :
        /\ pools[a].migration_params # None
        /\ pools[a].migration_params[1].index_snapshot > 0

====
